---- MODULE Spec2Model ----
(***************************************************************************)
(* FinOps-Pulse: build_aggregates, _detect_mad, detect_anomalies and       *)
(* explain_total_anomalies of src/finops_pulse/pipeline.py, driven as in   *)
(* src/finops_pulse/run_all.py.                                            *)
(*                                                                         *)
(* Money.  An input cost is an integer number of cents.  Every quantity    *)
(* the code computes from costs (a median of an even number of points, a   *)
(* MAD, a threshold, a delta) is held exactly, in quarter cents; the       *)
(* values the code emits go through round(x, 2) and are cents again.       *)
(* Dates.  A date is [day, fmt]: fmt "str" is the ISO string of a CSV,     *)
(* fmt "ts" is the pandas Timestamp pd.to_datetime makes of it.            *)
(***************************************************************************)
EXTENDS Integers, Sequences, FiniteSets

VARIABLES pc, df, df_before, cfg, top_k,
          daily_total, daily_by_service, daily_by_rg,
          anomalies, total_anoms, explanations, raised,
          series, i, out_rows

vars == <<pc, df, df_before, cfg, top_k, daily_total, daily_by_service,
          daily_by_rg, anomalies, total_anoms, explanations, raised,
          series, i, out_rows>>

----------------------------------------------------------------------------
(* Bounds of the model *)

MaxLen == 4
MaxWindow == 2
MaxMinHistory == 2
MaxMult == 2

(* Program constants *)

MadFloor == 400
LookBackDays == 14

----------------------------------------------------------------------------
(* Generic helpers *)

Max(a, b) == IF a >= b THEN a ELSE b

Abs(x) == IF x >= 0 THEN x ELSE -x

Range(s) == {s[k] : k \in DOMAIN s}

RECURSIVE SumSeq(_)
SumSeq(s) == IF s = <<>> THEN 0 ELSE Head(s) + SumSeq(Tail(s))

RECURSIVE Flatten(_)
Flatten(ss) == IF ss = <<>> THEN <<>> ELSE Head(ss) \o Flatten(Tail(ss))

(* A stable sort: elements that Less does not order keep their order in s. *)
StableSort(s, Less(_, _)) ==
    LET n == Len(s)
        pos(j) == 1 + Cardinality({k \in 1..n :
                        \/ Less(s[k], s[j])
                        \/ (~Less(s[j], s[k]) /\ k < j)})
    IN [p \in 1..n |-> s[CHOOSE j \in 1..n : pos(j) = p]]

IntLess(a, b) == a < b

(* The distinct values of a set of integers, ascending. *)
RECURSIVE SortedSeqOf(_)
SortedSeqOf(S) ==
    IF S = {} THEN <<>>
    ELSE LET m == CHOOSE x \in S : \A y \in S : x <= y
         IN <<m>> \o SortedSeqOf(S \ {m})

----------------------------------------------------------------------------
(* Numbers *)

(* float(cost): cents to the exact quarter-cent scale. *)
ToFloat(cents) == 4 * cents

(* round(x, 2): quarter cents to cents, to nearest, a tie to the even cent. *)
Round2(q) ==
    LET a == Abs(q)
        f == a \div 4
        r == a % 4
        n == IF r < 2 THEN f
             ELSE IF r > 2 THEN f + 1
             ELSE IF f % 2 = 0 THEN f ELSE f + 1
    IN IF q >= 0 THEN n ELSE -n

(* np.median of a non-empty sequence of quarter-cent values. *)
Median(xs) ==
    LET srt == StableSort(xs, IntLess)
        n == Len(xs)
    IN IF n % 2 = 1 THEN srt[(n + 1) \div 2]
       ELSE (srt[n \div 2] + srt[n \div 2 + 1]) \div 2

median_abs_deviation(xs) ==
    LET med == Median(xs)
    IN Median([k \in DOMAIN xs |-> Abs(xs[k] - med)])

----------------------------------------------------------------------------
(* Dates *)

to_datetime(d) == [day |-> d.day, fmt |-> "ts"]

isoformat(d) == [day |-> d.day, fmt |-> "str"]

Timestamp(n) == [day |-> n, fmt |-> "ts"]

----------------------------------------------------------------------------
(* _detect_mad *)

(* hist = s.iloc[max(0, i - cfg.window_days):i].values, idx 0-based *)
WindowFrom(c, idx) == Max(0, idx - c.window_days)

HistIncludesToday(s, c, idx) ==
    [k \in 1..(idx - WindowFrom(c, idx)) |->
        ToFloat(s[WindowFrom(c, idx) + k + 1].value)]

Hist(s, c, idx) ==
    [k \in 1..(idx - WindowFrom(c, idx)) |->
        ToFloat(s[WindowFrom(c, idx) + k].value)]

Baseline(s, c, idx) == Median(Hist(s, c, idx))

(* mad = mad if mad > 1e-6 else 1.0 *)
FlooredMadNoFloor(s, c, idx) == median_abs_deviation(Hist(s, c, idx))

FlooredMad(s, c, idx) ==
    LET mad == median_abs_deviation(Hist(s, c, idx))
    IN IF mad > 0 THEN mad ELSE MadFloor

Threshold(s, c, idx) ==
    Baseline(s, c, idx) + c.mad_multiplier * FlooredMad(s, c, idx)

(* is_anomaly for index idx; an empty history gives nan, and no comparison *)
(* with nan is true.                                                       *)
IsAnomalyFlagsDrops(s, c, idx) ==
    /\ idx >= c.min_history
    /\ Hist(s, c, idx) # <<>>
    /\ ToFloat(s[idx + 1].value) < Threshold(s, c, idx)

IsAnomaly(s, c, idx) ==
    /\ idx >= c.min_history
    /\ Hist(s, c, idx) # <<>>
    /\ ToFloat(s[idx + 1].value) > Threshold(s, c, idx)

MadRow(s, c, idx) ==
    LET value == ToFloat(s[idx + 1].value)
        baseline == Baseline(s, c, idx)
    IN [date |-> s[idx + 1].date,
        value |-> Round2(value),
        baseline |-> Round2(baseline),
        mad |-> Round2(FlooredMad(s, c, idx)),
        threshold |-> Round2(Threshold(s, c, idx)),
        delta |-> Round2(value - baseline)]

(* The rows of the whole loop, in index order. *)
_detect_mad(s, c) ==
    LET flagged == {idx \in 0..(Len(s) - 1) : IsAnomaly(s, c, idx)}
        order == SortedSeqOf(flagged)
    IN [k \in DOMAIN order |-> MadRow(s, c, order[k])]

----------------------------------------------------------------------------
(* Strings, in the order Python and pandas compare them (code points):     *)
(* capitals before lower case, "resource_group" before "rg-..." .          *)

StringOrder ==
    <<"", "AI", "Compute", "all", "resource_group", "rg-core", "rg-data",
      "service", "total">>

StrRank(str) == CHOOSE k \in DOMAIN StringOrder : StringOrder[k] = str

StrLess(a, b) == StrRank(a) < StrRank(b)

(* The strings of a set, ascending: the key order of a groupby. *)
SortedKeys(S) ==
    LET ranks == SortedSeqOf({StrRank(str) : str \in S})
    IN [k \in DOMAIN ranks |-> StringOrder[ranks[k]]]

(* The days of a set of dates, ascending, as Timestamps. *)
SortedDates(S) ==
    LET days == SortedSeqOf({d.day : d \in S})
    IN [k \in DOMAIN days |-> Timestamp(days[k])]

CostSum(rows) == SumSeq([k \in DOMAIN rows |-> rows[k].cost])

----------------------------------------------------------------------------
(* build_aggregates *)

(* df["date"] = pd.to_datetime(df["date"]) *)
WithDatetime(d) == [k \in DOMAIN d |-> [d[k] EXCEPT !.date = to_datetime(@)]]

(* df.groupby("date", as_index=False)["cost"].sum() *)
DailyTotal(d) ==
    LET dates == SortedDates({r.date : r \in Range(d)})
        OnDate(dt) == LET P(r) == r.date = dt IN SelectSeq(d, P)
    IN [k \in DOMAIN dates |->
          [date |-> dates[k], total_cost |-> CostSum(OnDate(dates[k]))]]

(* df.groupby(["date", "service"], as_index=False)["cost"].sum() *)
DailyByService(d) ==
    LET dates == SortedDates({r.date : r \in Range(d)})
        Group(dt, svc) == LET P(r) == r.date = dt /\ r.service = svc
                          IN SelectSeq(d, P)
        OfDate(dt) ==
            LET keys == SortedKeys({r.service : r \in {x \in Range(d) : x.date = dt}})
            IN [k \in DOMAIN keys |->
                  [date |-> dt, service |-> keys[k],
                   cost |-> CostSum(Group(dt, keys[k]))]]
    IN Flatten([k \in DOMAIN dates |-> OfDate(dates[k])])

(* df.groupby(["date", "resource_group"], as_index=False)["cost"].sum() *)
DailyByRgFirst(d) ==
    LET dates == SortedDates({r.date : r \in Range(d)})
        Group(dt, rg) == LET P(r) == r.date = dt /\ r.resource_group = rg
                         IN SelectSeq(d, P)
        OfDate(dt) ==
            LET keys == SortedKeys({r.resource_group :
                                      r \in {x \in Range(d) : x.date = dt}})
            IN [k \in DOMAIN keys |->
                  [date |-> dt, resource_group |-> keys[k],
                   cost |-> Group(dt, keys[k])[1].cost]]
    IN Flatten([k \in DOMAIN dates |-> OfDate(dates[k])])

DailyByRg(d) ==
    LET dates == SortedDates({r.date : r \in Range(d)})
        Group(dt, rg) == LET P(r) == r.date = dt /\ r.resource_group = rg
                         IN SelectSeq(d, P)
        OfDate(dt) ==
            LET keys == SortedKeys({r.resource_group :
                                      r \in {x \in Range(d) : x.date = dt}})
            IN [k \in DOMAIN keys |->
                  [date |-> dt, resource_group |-> keys[k],
                   cost |-> CostSum(Group(dt, keys[k]))]]
    IN Flatten([k \in DOMAIN dates |-> OfDate(dates[k])])

(* The three tables returned, computed on the df with its dates converted. *)
build_aggregates(d) ==
    LET n == WithDatetime(d)
    IN [daily_total |-> DailyTotal(n),
        daily_by_service |-> DailyByService(n),
        daily_by_rg |-> DailyByRg(n)]

----------------------------------------------------------------------------
(* detect_anomalies *)

(* grp.sort_values("date"): the rows of one slice, by date *)
DateLess(a, b) == a.date.day < b.date.day

(* s_total = daily_total.set_index("date")["total_cost"] *)
TotalSeries(total) ==
    [k \in DOMAIN total |-> [date |-> total[k].date, value |-> total[k].total_cost]]

(* grp.sort_values("date").set_index("date")["cost"] for one service *)
ServiceSeries(by_service, svc) ==
    LET InGrp(r) == r.service = svc
        grp == StableSort(SelectSeq(by_service, InGrp), DateLess)
    IN [k \in DOMAIN grp |-> [date |-> grp[k].date, value |-> grp[k].cost]]

(* grp.sort_values("date").set_index("date")["cost"] for one resource group *)
RgSeries(by_rg, rg) ==
    LET InGrp(r) == r.resource_group = rg
        grp == StableSort(SelectSeq(by_rg, InGrp), DateLess)
    IN [k \in DOMAIN grp |-> [date |-> grp[k].date, value |-> grp[k].cost]]

(* a["level"] = level; a["key"] = key *)
Labelled(rows, level, key) ==
    [k \in DOMAIN rows |->
        [date |-> rows[k].date, value |-> rows[k].value,
         baseline |-> rows[k].baseline, mad |-> rows[k].mad,
         threshold |-> rows[k].threshold, delta |-> rows[k].delta,
         level |-> level, key |-> key]]

(* The slices in the order the code scans them: the total, then the        *)
(* services in key order, then the resource groups in key order.           *)
Slices(by_service, by_rg) ==
    LET svcs == SortedKeys({r.service : r \in Range(by_service)})
        rgs == SortedKeys({r.resource_group : r \in Range(by_rg)})
    IN <<[level |-> "total", key |-> "all"]>>
       \o [k \in DOMAIN svcs |-> [level |-> "service", key |-> svcs[k]]]
       \o [k \in DOMAIN rgs |-> [level |-> "resource_group", key |-> rgs[k]]]

(* The labelled anomalies of one slice. *)
ScanSlice(total, by_service, by_rg, c, slice) ==
    LET s == IF slice.level = "total" THEN TotalSeries(total)
             ELSE IF slice.level = "service" THEN ServiceSeries(by_service, slice.key)
             ELSE RgSeries(by_rg, slice.key)
    IN Labelled(_detect_mad(s, c), slice.level, slice.key)

(* sort_values(["date", "level", "delta"], ascending=[True, True, False]) *)
AnomalyLessLevelDescending(a, b) ==
    \/ a.date.day < b.date.day
    \/ a.date.day = b.date.day /\ StrLess(b.level, a.level)
    \/ a.date.day = b.date.day /\ a.level = b.level /\ a.delta > b.delta

AnomalyLess(a, b) ==
    \/ a.date.day < b.date.day
    \/ a.date.day = b.date.day /\ StrLess(a.level, b.level)
    \/ a.date.day = b.date.day /\ a.level = b.level /\ a.delta > b.delta

SortAnomaliesUnsorted(rows) == rows

(* anomalies["date"] = pd.to_datetime(...); the multi-column sort_values   *)
(* is a stable sort.                                                       *)
SortAnomalies(rows) ==
    StableSort([k \in DOMAIN rows |-> [rows[k] EXCEPT !.date = to_datetime(@)]],
               AnomalyLess)

(* Lines 91-97 on the per-slice results, concatenated in the given order.  *)
(* An empty concatenation is a frame without columns: it is returned as it *)
(* is, because sorting it by "date" would raise KeyError.                  *)
MergeAnomaliesNoEmptyGuard(results) ==
    LET merged == Flatten(results)
    IN [raised |-> merged = <<>>, rows |-> SortAnomalies(merged)]

MergeAnomalies(results) ==
    LET merged == Flatten(results)
    IN IF merged = <<>>
       THEN [raised |-> FALSE, rows |-> <<>>]
       ELSE [raised |-> FALSE, rows |-> SortAnomalies(merged)]

SliceResults(total, by_service, by_rg, c) ==
    LET sl == Slices(by_service, by_rg)
    IN [k \in DOMAIN sl |-> ScanSlice(total, by_service, by_rg, c, sl[k])]

detect_anomalies(total, by_service, by_rg, c) ==
    MergeAnomalies(SliceResults(total, by_service, by_rg, c))

----------------------------------------------------------------------------
(* explain_total_anomalies *)

(* svc_hist / rg_hist: the rows with start <= date < day, start = day - 14 *)
InLookBack(r, day) ==
    /\ to_datetime(r.date).day >= day.day - LookBackDays
    /\ to_datetime(r.date).day < day.day

CostsAsFloat(rows) == [k \in DOMAIN rows |-> ToFloat(rows[k].cost)]

(* float(svc_base.get(svc, 0.0)), svc_base the per-service median of the   *)
(* look-back rows                                                          *)
ServiceBase(by_service, day, svc) ==
    LET P(r) == InLookBack(r, day) /\ r.service = svc
        hist == SelectSeq(by_service, P)
    IN IF hist = <<>> THEN 0 ELSE Median(CostsAsFloat(hist))

RgBase(by_rg, day, rg) ==
    LET P(r) == InLookBack(r, day) /\ r.resource_group = rg
        hist == SelectSeq(by_rg, P)
    IN IF hist = <<>> THEN 0 ELSE Median(CostsAsFloat(hist))

(* sort(key=lambda x: x[1], reverse=True): descending, stable *)
DeltaGreaterAscending(a, b) == a.delta < b.delta

DeltaGreater(a, b) == a.delta > b.delta

(* svc_delta after the sort: one (service, delta) per row of the day *)
ServiceDeltas(by_service, day) ==
    LET P(r) == to_datetime(r.date) = day
        today == SelectSeq(by_service, P)
    IN StableSort([k \in DOMAIN today |->
                     [key |-> today[k].service,
                      delta |-> ToFloat(today[k].cost)
                                - ServiceBase(by_service, day, today[k].service)]],
                  DeltaGreater)

RgDeltas(by_rg, day) ==
    LET P(r) == to_datetime(r.date) = day
        today == SelectSeq(by_rg, P)
    IN StableSort([k \in DOMAIN today |->
                     [key |-> today[k].resource_group,
                      delta |-> ToFloat(today[k].cost)
                                - RgBase(by_rg, day, today[k].resource_group)]],
                  DeltaGreater)

(* The slots 1..k of one dimension: top_<dim>_j and <dim>_delta_j *)
SlotsNoPadding(deltas, k) ==
    [j \in 1..(IF k <= Len(deltas) THEN k ELSE Len(deltas)) |->
        [key |-> deltas[j].key, delta |-> Round2(deltas[j].delta)]]

Slots(deltas, k) ==
    [j \in 1..k |->
        IF j <= Len(deltas)
        THEN [key |-> deltas[j].key, delta |-> Round2(deltas[j].delta)]
        ELSE [key |-> "", delta |-> 0]]

(* rec of one total-anomaly row *)
ExplainRow(by_service, by_rg, row, k) ==
    LET day == to_datetime(row.date)
    IN [date |-> isoformat(day),
        service |-> Slots(ServiceDeltas(by_service, day), k),
        rg |-> Slots(RgDeltas(by_rg, day), k)]

explain_total_anomalies(by_service, by_rg, total_anomalies, k) ==
    IF total_anomalies = <<>> THEN <<>>
    ELSE [n \in DOMAIN total_anomalies |->
            ExplainRow(by_service, by_rg, total_anomalies[n], k)]

----------------------------------------------------------------------------
(* AnomalyConfig *)

AnomalyConfig(w, m, h) ==
    [window_days |-> w, mad_multiplier |-> m, min_history |-> h]

(* AnomalyConfig(window_days=14, mad_multiplier=8.0, min_history=21) *)
DefaultConfig == AnomalyConfig(14, 8, 21)

Configs ==
    {AnomalyConfig(w, m, h) : w \in 1..MaxWindow, m \in 1..MaxMult,
                              h \in 1..MaxMinHistory}

----------------------------------------------------------------------------
(* Inputs of the detector: every series of at most MaxLen points over      *)
(* MadCosts, dated by position, and the 40-day series of 100.00 with       *)
(* 500.00 on day 30.                                                       *)

MadCosts == {0, 50, 150, 300}

SeriesOf(vals) == [k \in DOMAIN vals |-> [date |-> Timestamp(k - 1), value |-> vals[k]]]

SmallSeries ==
    UNION {{SeriesOf(vals) : vals \in [1..n -> MadCosts]} : n \in 0..MaxLen}

SpikeSeries(n, v, p, d) ==
    SeriesOf([k \in 1..n |-> IF k = d + 1 THEN p ELSE v])

ScenarioSeries == SpikeSeries(40, 10000, 50000, 30)

----------------------------------------------------------------------------
(* The parts of the state a specification does not use *)

NoPipeline ==
    /\ df = <<>> /\ df_before = <<>> /\ top_k = 0
    /\ daily_total = <<>> /\ daily_by_service = <<>> /\ daily_by_rg = <<>>
    /\ anomalies = <<>> /\ total_anoms = <<>> /\ explanations = <<>>
    /\ raised = FALSE

pipelineVars == <<df, df_before, top_k, daily_total, daily_by_service,
                  daily_by_rg, anomalies, total_anoms, explanations, raised>>

----------------------------------------------------------------------------
(* _detect_mad as the loop it is: one step per index of the series *)

InitMad ==
    /\ pc = "mad_loop"
    /\ series \in SmallSeries \cup {ScenarioSeries}
    /\ cfg \in Configs \cup {DefaultConfig}
    /\ i = 0
    /\ out_rows = <<>>
    /\ NoPipeline

(* if i < cfg.min_history: continue *)
MadSkip ==
    /\ pc = "mad_loop"
    /\ i < Len(series)
    /\ i < cfg.min_history
    /\ i' = i + 1
    /\ UNCHANGED <<pc, series, cfg, out_rows, pipelineVars>>

MadCheck ==
    /\ pc = "mad_loop"
    /\ i < Len(series)
    /\ i >= cfg.min_history
    /\ out_rows' = IF IsAnomaly(series, cfg, i)
                   THEN Append(out_rows, MadRow(series, cfg, i))
                   ELSE out_rows
    /\ i' = i + 1
    /\ UNCHANGED <<pc, series, cfg, pipelineVars>>

(* return pd.DataFrame(out_rows) *)
MadReturn ==
    /\ pc = "mad_loop"
    /\ i = Len(series)
    /\ pc' = "mad_done"
    /\ UNCHANGED <<series, cfg, i, out_rows, pipelineVars>>

NextMad == MadSkip \/ MadCheck \/ MadReturn

SpecMad == InitMad /\ [][NextMad]_vars

----------------------------------------------------------------------------
(* The run of run_all.main: read the raw table, aggregate, detect, explain *)

MaxRecs == 4

Services == {"AI", "Compute"}
ResourceGroups == {"rg-core", "rg-data"}
RunDays == {1, 2}
RunCosts == {0, 500}

(* A row of the CSV; pd.read_csv leaves the date a string. *)
CostRecord(day, rg, svc, cost) ==
    [date |-> [day |-> day, fmt |-> "str"], subscription |-> "sub-prod",
     resource_group |-> rg, service |-> svc, cost |-> cost]

RecordLeq(a, b) ==
    LET ka == <<a.date.day, StrRank(a.service), StrRank(a.resource_group), a.cost>>
        kb == <<b.date.day, StrRank(b.service), StrRank(b.resource_group), b.cost>>
    IN \/ ka = kb
       \/ \E j \in 1..4 : ka[j] < kb[j] /\ \A h \in 1..(j - 1) : ka[h] = kb[h]

(* The tables of exactly n rows over U, one row order for each multiset of *)
(* rows (no stage depends on the row order of the raw table).              *)
RECURSIVE TablesOfLen(_, _)
TablesOfLen(U, n) ==
    IF n = 0 THEN {<<>>}
    ELSE {Append(tb, r) : <<tb, r>> \in
            {x \in TablesOfLen(U, n - 1) \X U :
                x[1] = <<>> \/ RecordLeq(x[1][Len(x[1])], x[2])}}

Tables(U, n) == UNION {TablesOfLen(U, m) : m \in 0..n}

RunRecords ==
    {CostRecord(d, rg, svc, c) :
        d \in RunDays, rg \in ResourceGroups, svc \in Services, c \in RunCosts}

RunConfigs == {AnomalyConfig(1, 1, 1), DefaultConfig}

NoDetectorLoop == series = <<>> /\ i = 0 /\ out_rows = <<>>

Init ==
    /\ pc = "start"
    /\ df \in Tables(RunRecords, MaxRecs)
    /\ df_before = df
    /\ cfg \in RunConfigs
    /\ top_k = 3
    /\ daily_total = <<>> /\ daily_by_service = <<>> /\ daily_by_rg = <<>>
    /\ anomalies = <<>> /\ total_anoms = <<>> /\ explanations = <<>>
    /\ raised = FALSE
    /\ NoDetectorLoop

(* daily_total, daily_by_service, daily_by_rg = build_aggregates(df); the  *)
(* assignment to df["date"] is made in the caller's table.                 *)
BuildAggregates ==
    /\ pc = "start"
    /\ df' = WithDatetime(df)
    /\ daily_total' = build_aggregates(df).daily_total
    /\ daily_by_service' = build_aggregates(df).daily_by_service
    /\ daily_by_rg' = build_aggregates(df).daily_by_rg
    /\ pc' = "aggregated"
    /\ UNCHANGED <<df_before, cfg, top_k, anomalies, total_anoms, explanations,
                   raised, series, i, out_rows>>

(* anomalies = detect_anomalies(daily_total, daily_by_service, daily_by_rg, cfg) *)
DetectAnomalies ==
    /\ pc = "aggregated"
    /\ LET res == detect_anomalies(daily_total, daily_by_service, daily_by_rg, cfg)
       IN /\ anomalies' = res.rows
          /\ raised' = res.raised
          /\ pc' = IF res.raised THEN "raised" ELSE "detected"
    /\ UNCHANGED <<df, df_before, cfg, top_k, daily_total, daily_by_service,
                   daily_by_rg, total_anoms, explanations, series, i, out_rows>>

(* if anomalies.empty: ... return *)
NoAnomalies ==
    /\ pc = "detected"
    /\ anomalies = <<>>
    /\ pc' = "done"
    /\ UNCHANGED <<df, df_before, cfg, top_k, daily_total, daily_by_service,
                   daily_by_rg, anomalies, total_anoms, explanations, raised,
                   series, i, out_rows>>

(* total_anoms = anomalies[anomalies["level"] == "total"].copy() *)
TotalLevel(rows) == LET P(r) == r.level = "total" IN SelectSeq(rows, P)

(* explanations = explain_total_anomalies(daily_by_service, daily_by_rg,   *)
(*                                        total_anoms, top_k=3)            *)
ExplainTotalAnomalies ==
    /\ pc = "detected"
    /\ anomalies # <<>>
    /\ total_anoms' = TotalLevel(anomalies)
    /\ explanations' = explain_total_anomalies(daily_by_service, daily_by_rg,
                                               TotalLevel(anomalies), top_k)
    /\ pc' = "done"
    /\ UNCHANGED <<df, df_before, cfg, top_k, daily_total, daily_by_service,
                   daily_by_rg, anomalies, raised, series, i, out_rows>>

Next == BuildAggregates \/ DetectAnomalies \/ NoAnomalies \/ ExplainTotalAnomalies

Spec == Init /\ [][Next]_vars

----------------------------------------------------------------------------
(* explain_total_anomalies on its own: aggregate tables over days on both  *)
(* sides of the 14-day look-back, any top_k up to MaxTopK, and up to two   *)
(* flagged days.                                                           *)

MaxTopK == 2

ExplainDays == {1, 2, LookBackDays + 1, LookBackDays + 2}

(* What a (day, service) cell of the raw table can hold: nothing, or one   *)
(* record of this cost.                                                    *)
CellCosts(day) == IF day = 1 THEN {-1, 301} ELSE {-1, 100, 301}

Cells == ExplainDays \X Services

CellTables == {f \in [Cells -> {-1, 100, 301}] : \A c \in Cells : f[c] \in CellCosts(c[1])}

(* The resource group each service is billed in. *)
RgMaps == {[svc \in Services |-> IF svc = "AI" THEN "rg-core" ELSE "rg-data"],
           [svc \in Services |-> "rg-core"]}

CellLeq(a, b) ==
    \/ a[1] < b[1]
    \/ a[1] = b[1] /\ StrRank(a[2]) <= StrRank(b[2])

RECURSIVE SeqOfCells(_)
SeqOfCells(S) ==
    IF S = {} THEN <<>>
    ELSE LET m == CHOOSE x \in S : \A y \in S : CellLeq(x, y)
         IN <<m>> \o SeqOfCells(S \ {m})

RawOfCells(f, rgOf) ==
    LET present == SeqOfCells({c \in Cells : f[c] >= 0})
    IN [k \in DOMAIN present |->
          [CostRecord(present[k][1], rgOf[present[k][2]], present[k][2], f[present[k]])
             EXCEPT !.date = to_datetime(@)]]

(* A row of the anomaly table of level "total". *)
TotalAnomalyOn(day) ==
    [date |-> Timestamp(day), value |-> 0, baseline |-> 0, mad |-> 100,
     threshold |-> 0, delta |-> 0, level |-> "total", key |-> "all"]

FlaggedDays ==
    {<<>>} \cup {<<TotalAnomalyOn(d)>> : d \in ExplainDays \ {1}}
           \cup {<<TotalAnomalyOn(LookBackDays + 1), TotalAnomalyOn(LookBackDays + 2)>>}

InitExplain ==
    /\ pc = "explain_call"
    /\ \E f \in CellTables : \E rgOf \in RgMaps :
          /\ df = RawOfCells(f, rgOf)
          /\ daily_total = build_aggregates(df).daily_total
          /\ daily_by_service = build_aggregates(df).daily_by_service
          /\ daily_by_rg = build_aggregates(df).daily_by_rg
    /\ df_before = df
    /\ cfg = DefaultConfig
    /\ top_k \in 0..MaxTopK
    /\ total_anoms \in FlaggedDays
    /\ anomalies = total_anoms
    /\ explanations = <<>>
    /\ raised = FALSE
    /\ NoDetectorLoop

ExplainCall ==
    /\ pc = "explain_call"
    /\ explanations' = explain_total_anomalies(daily_by_service, daily_by_rg,
                                               total_anoms, top_k)
    /\ pc' = "explained"
    /\ UNCHANGED <<df, df_before, cfg, top_k, daily_total, daily_by_service,
                   daily_by_rg, anomalies, total_anoms, raised, series, i, out_rows>>

NextExplain == ExplainCall

SpecExplain == InitExplain /\ [][NextExplain]_vars

----------------------------------------------------------------------------
(* Claims about explain_total_anomalies, checked under SpecExplain *)

Min(a, b) == IF a <= b THEN a ELSE b

(* The services and resource groups that have a row on day D. *)
ServicesOn(D) == {r.service : r \in {x \in Range(daily_by_service) : x.date.day = D}}

RgsOn(D) == {r.resource_group : r \in {x \in Range(daily_by_rg) : x.date.day = D}}

(* The daily costs of a slice on the dates of [D - 14, D), by date; the    *)
(* aggregate tables hold one row for each date and key.                    *)
ServiceWindow(D, svc) ==
    LET P(r) == r.service = svc /\ D - 14 <= r.date.day /\ r.date.day < D
    IN StableSort(SelectSeq(daily_by_service, P), DateLess)

RgWindow(D, rg) ==
    LET P(r) == r.resource_group = rg /\ D - 14 <= r.date.day /\ r.date.day < D
    IN StableSort(SelectSeq(daily_by_rg, P), DateLess)

(* delta = cost on D minus the median of the window, 0 for an empty        *)
(* window; in quarter cents.                                               *)
ServiceDeltaOn(D, svc) ==
    LET today == CHOOSE r \in Range(daily_by_service) : r.service = svc /\ r.date.day = D
        w == ServiceWindow(D, svc)
    IN 4 * today.cost - (IF w = <<>> THEN 0 ELSE Median([k \in DOMAIN w |-> 4 * w[k].cost]))

RgDeltaOn(D, rg) ==
    LET today == CHOOSE r \in Range(daily_by_rg) : r.resource_group = rg /\ r.date.day = D
        w == RgWindow(D, rg)
    IN 4 * today.cost - (IF w = <<>> THEN 0 ELSE Median([k \in DOMAIN w |-> 4 * w[k].cost]))

(* slots lists, in non-increasing order of Delta, min(top_k, n) of the n   *)
(* keys of present, none with a smaller Delta than a key left out, each    *)
(* with its delta rounded to cents.                                        *)
ListsTop(slots, present, Delta(_)) ==
    LET filled == Min(top_k, Cardinality(present))
    IN /\ Len(slots) >= filled
       /\ \A j \in 1..filled :
             /\ slots[j].key \in present
             /\ slots[j].delta = Round2(Delta(slots[j].key))
             /\ \A h \in 1..filled : h # j => slots[h].key # slots[j].key
             /\ j < filled => Delta(slots[j].key) >= Delta(slots[j + 1].key)
             /\ \A other \in present \ {slots[h].key : h \in 1..filled} :
                   Delta(other) <= Delta(slots[j].key)

(* C6: for each flagged day D the filled service slots list, in            *)
(* non-increasing order of delta, the min(top_k, n) services present on D  *)
(* with the largest delta, delta being the cost on D minus the median of   *)
(* the service's daily costs on the dates of [D - 14, D), the baseline 0   *)
(* for a service with no row there; the same for resource groups.          *)
C6_TopDrivers ==
    pc = "explained" =>
        /\ Len(explanations) = Len(total_anoms)
        /\ \A n \in DOMAIN total_anoms :
              LET D == total_anoms[n].date.day
                  SvcDelta(svc) == ServiceDeltaOn(D, svc)
                  RgDelta(rg) == RgDeltaOn(D, rg)
              IN /\ explanations[n].date = [day |-> D, fmt |-> "str"]
                 /\ ListsTop(explanations[n].service, ServicesOn(D), SvcDelta)
                 /\ ListsTop(explanations[n].rg, RgsOn(D), RgDelta)

(* A flagged day with two services of different deltas and one slot, the   *)
(* service listed being the second in key order, its baseline the median   *)
(* of two days of the window.                                              *)
C6_Witness ==
    /\ pc = "explained"
    /\ top_k = 1
    /\ \E n \in DOMAIN total_anoms :
          LET D == total_anoms[n].date.day
          IN /\ ServicesOn(D) = Services
             /\ explanations[n].service[1].key = "Compute"
             /\ ServiceDeltaOn(D, "Compute") > ServiceDeltaOn(D, "AI")
             /\ Len(ServiceWindow(D, "Compute")) = 2
             /\ ServiceWindow(D, "Compute")[1].cost # ServiceWindow(D, "Compute")[2].cost

EmptySlot == [key |-> "", delta |-> 0]

(* C7: every record has exactly top_k service slots and exactly top_k      *)
(* resource-group slots, and the slots beyond the slices present on the    *)
(* flagged day hold the key "" and the delta 0.0.                          *)
C7_Padding ==
    pc = "explained" =>
        \A n \in DOMAIN explanations :
            LET D == total_anoms[n].date.day
                rec == explanations[n]
            IN /\ Len(rec.service) = top_k
               /\ Len(rec.rg) = top_k
               /\ \A j \in 1..top_k :
                     /\ j > Cardinality(ServicesOn(D)) => rec.service[j] = EmptySlot
                     /\ j > Cardinality(RgsOn(D)) => rec.rg[j] = EmptySlot

(* A record of two slots for a day that has one service and one resource   *)
(* group: the first slot of each filled, the second padded.                *)
C7_Witness ==
    /\ pc = "explained"
    /\ top_k = 2
    /\ \E n \in DOMAIN explanations :
          LET D == total_anoms[n].date.day
          IN /\ Cardinality(ServicesOn(D)) = 1
             /\ Cardinality(RgsOn(D)) = 1
             /\ explanations[n].service[1].key # ""
             /\ explanations[n].service[2] = EmptySlot
             /\ explanations[n].rg[2] = EmptySlot

----------------------------------------------------------------------------
(* Claims about the run, checked under Spec *)

Positions(rows) == DOMAIN rows

(* C1, as stated: of two anomalies of the same date, one of level "total"  *)
(* and one of level "service", the "total" row comes first.                *)
C1_TotalBeforeService ==
    \A a, b \in Positions(anomalies) :
        (/\ anomalies[a].date = anomalies[b].date
         /\ anomalies[a].level = "total"
         /\ anomalies[b].level = "service") => a < b

(* C1, amended: of two anomalies of the same date, one of level "total"    *)
(* and one of level "service", the "service" row comes first, whatever the *)
(* deltas: level ascending is "resource_group", "service", "total".        *)
C1_ServiceBeforeTotal ==
    \A a, b \in Positions(anomalies) :
        (/\ anomalies[a].date = anomalies[b].date
         /\ anomalies[a].level = "total"
         /\ anomalies[b].level = "service") => b < a

(* A total anomaly and a service anomaly of the same date, the service's   *)
(* delta the larger one.                                                   *)
C1_Witness ==
    /\ pc = "detected"
    /\ \E a, b \in Positions(anomalies) :
          /\ anomalies[a].date = anomalies[b].date
          /\ anomalies[a].level = "total"
          /\ anomalies[b].level = "service"
          /\ anomalies[b].delta > anomalies[a].delta

(* The raw records of a day, and the rows of a table of that day. *)
RawOn(day) == LET P(r) == r.date.day = day IN SelectSeq(df_before, P)

RowsOn(table, day) == LET P(r) == r.date = Timestamp(day) IN SelectSeq(table, P)

RawDays == {r.date.day : r \in Range(df_before)}

(* C5: for every date of the input, total_cost of the date is the sum of   *)
(* the by_service rows of the date and the sum of the by_resource_group    *)
(* rows of the date, and is the sum of all input records of the date.      *)
C5_Reconcile ==
    pc # "start" =>
        \A day \in RawDays :
            /\ Len(RowsOn(daily_total, day)) = 1
            /\ RowsOn(daily_total, day)[1].total_cost = CostSum(RowsOn(daily_by_service, day))
            /\ RowsOn(daily_total, day)[1].total_cost = CostSum(RowsOn(daily_by_rg, day))
            /\ RowsOn(daily_total, day)[1].total_cost = CostSum(RawOn(day))

(* A date with two services and two resource groups, one of the groups     *)
(* summing more than one record.                                           *)
C5_Witness ==
    /\ pc = "aggregated"
    /\ \E day \in RawDays :
          /\ Len(RowsOn(daily_by_service, day)) = 2
          /\ Len(RowsOn(daily_by_rg, day)) = 2
          /\ Len(RawOn(day)) > 2
          /\ RowsOn(daily_total, day)[1].total_cost > 1000

(* C8: an empty input gives three empty aggregate tables and an empty      *)
(* anomaly table without raising, and an empty set of total anomalies      *)
(* gives an empty explanation table.                                       *)
C8_EmptyIsAValue ==
    /\ pc # "raised"
    /\ (df_before = <<>> /\ pc # "start") =>
           /\ daily_total = <<>> /\ daily_by_service = <<>> /\ daily_by_rg = <<>>
    /\ (df_before = <<>> /\ pc \in {"detected", "done"}) =>
           /\ anomalies = <<>> /\ ~raised
    /\ (pc = "done" /\ anomalies # <<>> /\ total_anoms = <<>>) => explanations = <<>>

(* The empty input, through build_aggregates and detect_anomalies. *)
C8_Witness ==
    /\ df_before = <<>>
    /\ pc = "detected"
    /\ anomalies = <<>>

(* The per-slice results that hold rows, in the code's scan order. *)
ScanResults ==
    LET NonEmpty(rows) == rows # <<>>
    IN SelectSeq(SliceResults(daily_total, daily_by_service, daily_by_rg, cfg), NonEmpty)

(* The orders in which n results can be concatenated. *)
ScanOrders(n) == {f \in [1..n -> 1..n] : \A a, b \in 1..n : a # b => f[a] # f[b]}

(* The merged table when the results are concatenated in the order f. *)
MergedIn(results, f) == MergeAnomalies([k \in DOMAIN f |-> results[f[k]]]).rows

SortKey(r) == <<r.date.day, r.level, r.delta>>

(* C9, as stated: the merged table is the same, rows and order, whatever   *)
(* the order the slices are scanned and concatenated in, ties included.    *)
C9_ScanOrderIndependent ==
    pc = "detected" =>
        LET results == ScanResults
        IN \A f \in ScanOrders(Len(results)) : MergedIn(results, f) = anomalies

(* C9, amended: whatever the scan order, the merged table holds the same   *)
(* rows and the same sequence of (date, level, delta); it is the same      *)
(* table when no two anomalies tie on (date, level, delta).                *)
C9_ScanOrderUpToTies ==
    pc = "detected" =>
        LET results == ScanResults
            keys == [k \in DOMAIN anomalies |-> SortKey(anomalies[k])]
            noTie == \A a, b \in DOMAIN keys : a # b => keys[a] # keys[b]
        IN \A f \in ScanOrders(Len(results)) :
              LET alt == MergedIn(results, f)
              IN /\ Len(alt) = Len(anomalies)
                 /\ Range(alt) = Range(anomalies)
                 /\ \A k \in DOMAIN alt : SortKey(alt[k]) = keys[k]
                 /\ noTie => alt = anomalies

(* Two anomalies of different keys that tie on (date, level, delta). *)
C9_Witness ==
    /\ pc = "detected"
    /\ \E a, b \in DOMAIN anomalies :
          /\ a # b
          /\ SortKey(anomalies[a]) = SortKey(anomalies[b])
          /\ anomalies[a].key # anomalies[b].key

(* C10: after each stage its inputs are what they were before the call:    *)
(* the raw table after build_aggregates, the aggregate tables after        *)
(* detect_anomalies and explain_total_anomalies.                           *)
C10_InputsUnchanged ==
    /\ df = df_before
    /\ pc \in {"detected", "done"} =>
          /\ daily_total = build_aggregates(df_before).daily_total
          /\ daily_by_service = build_aggregates(df_before).daily_by_service
          /\ daily_by_rg = build_aggregates(df_before).daily_by_rg

----------------------------------------------------------------------------
(* Claims about _detect_mad, checked under SpecMad *)

(* The series with the point of index idx replaced by v. *)
Mutate(s, idx, v) == [s EXCEPT ![idx + 1].value = v]

(* Index idx of the series was flagged by the loop. *)
FlaggedInOut(idx) == \E r \in Range(out_rows) : r.date = series[idx + 1].date

(* The index the loop has just gone through, if any; every index is it in  *)
(* one state of each run.                                                  *)
JustScanned == IF pc = "mad_loop" /\ i > 0 THEN {i - 1} ELSE {}

Evaluated == {idx \in JustScanned : idx >= cfg.min_history}

OutsideWindow(idx) ==
    {k \in 0..(Len(series) - 1) : k < WindowFrom(cfg, idx) \/ k >= idx}

BaselineMadLocal ==
    \A idx \in Evaluated : \A k \in OutsideWindow(idx) : \A v \in MadCosts :
        /\ Baseline(Mutate(series, k, v), cfg, idx) = Baseline(series, cfg, idx)
        /\ FlooredMad(Mutate(series, k, v), cfg, idx) = FlooredMad(series, cfg, idx)

(* C2, as stated: the baseline and mad of index i depend only on           *)
(* s[max(0, i - window_days) : i], and replacing s[i] or any later point   *)
(* by any value never changes whether index i is flagged.                  *)
C2_CausalityIncludingToday ==
    /\ BaselineMadLocal
    /\ \A idx \in JustScanned : \A k \in idx..(Len(series) - 1) : \A v \in MadCosts :
           IsAnomaly(Mutate(series, k, v), cfg, idx) <=> FlaggedInOut(idx)

(* C2, amended: the baseline and mad of index i depend only on             *)
(* s[max(0, i - window_days) : i], and replacing any point after index i   *)
(* by any value never changes whether index i is flagged (s[i] itself is   *)
(* the value compared with the threshold).                                 *)
C2_Causality ==
    /\ BaselineMadLocal
    /\ \A idx \in JustScanned : \A k \in (idx + 1)..(Len(series) - 1) : \A v \in MadCosts :
           IsAnomaly(Mutate(series, k, v), cfg, idx) <=> FlaggedInOut(idx)

(* A flagged index that has a different point after it. *)
C2_Witness ==
    /\ pc = "mad_done"
    /\ \E idx \in 0..(Len(series) - 2) :
          /\ FlaggedInOut(idx)
          /\ series[idx + 2].value # series[idx + 1].value

(* The series is v everywhere but at index d. *)
ConstantBut(s, d, v) ==
    \A k \in 0..(Len(s) - 1) : k # d => s[k + 1].value = v

(* C3: a series constant at v but for one point p > v + mad_multiplier     *)
(* (1.00 being 100 cents) at an index d >= min_history >= window_days >= 1 *)
(* yields exactly one record, for index d, with baseline v, mad 1.00,      *)
(* threshold v + mad_multiplier and delta p - v.                           *)
C3_SingleSpike ==
    pc = "mad_done" =>
        \A d \in 0..(Len(series) - 1) : \A k \in 0..(Len(series) - 1) :
            LET v == series[k + 1].value
                p == series[d + 1].value
            IN (/\ k # d
                /\ ConstantBut(series, d, v)
                /\ p > v + 100 * cfg.mad_multiplier
                /\ d >= cfg.min_history
                /\ cfg.min_history >= cfg.window_days
                /\ cfg.window_days >= 1)
               => out_rows = << [date |-> Timestamp(d), value |-> p,
                                 baseline |-> v, mad |-> 100,
                                 threshold |-> v + 100 * cfg.mad_multiplier,
                                 delta |-> p - v] >>

(* The 40-day series under the default configuration, scanned to the end,  *)
(* with day 30 the one record.                                             *)
C3_Witness ==
    /\ pc = "mad_done"
    /\ series = ScenarioSeries
    /\ cfg = DefaultConfig
    /\ out_rows = << [date |-> Timestamp(30), value |-> 50000,
                      baseline |-> 10000, mad |-> 100,
                      threshold |-> 10800, delta |-> 40000] >>

Dates(rows) == {r.date : r \in Range(rows)}

(* C4: every index flagged under a larger mad_multiplier is flagged under  *)
(* the smaller one, so the larger one never flags more points.             *)
C4_Monotone ==
    pc = "mad_done" =>
        \A m2 \in (cfg.mad_multiplier + 1)..(cfg.mad_multiplier + MaxMult) :
            LET stricter == _detect_mad(series, [cfg EXCEPT !.mad_multiplier = m2])
            IN /\ Dates(stricter) \subseteq Dates(out_rows)
               /\ Len(stricter) <= Len(out_rows)

(* A point flagged under the multiplier in use and not under a larger one, *)
(* next to a point flagged under both.                                     *)
C4_Witness ==
    /\ pc = "mad_done"
    /\ \E m2 \in (cfg.mad_multiplier + 1)..(cfg.mad_multiplier + MaxMult) :
          LET stricter == _detect_mad(series, [cfg EXCEPT !.mad_multiplier = m2])
          IN 0 < Len(stricter) /\ Len(stricter) < Len(out_rows)

====
